---- MODULE Spec2Model ----
(***************************************************************************)
(* Parent / child_worker coordination of sample_python_multiprocessing:   *)
(* the Request Queue (JoinableQueue), the Response Queue (SimpleQueue),   *)
(* the None hand-over that stops the children, and the final sort.        *)
(***************************************************************************)
EXTENDS Integers, Sequences, FiniteSets, TLC

\* ------------------------------------------------------------- bounds
\* Largest num_task the small batches of Spec are drawn from.
MaxNumTask == 4
\* Largest cpu_count considered: at most MaxCpu - 1 child processes.
MaxCpu == 4

\* --------------------------------------------------- program constants
\* check_value: values below this are rejected.
LowerBound == 1
\* check_value: values above this are rejected.
UpperBound == 100
\* Parent.run: the number of tasks.
NumTask == 12
\* child_worker: response_value of the error response (dummy value).
DummyValue == 1

VARIABLES
    nchild,         \* Parent.nchild, as resolved by _get_nchild
    num_task,       \* the num_task argument of _run_single / _run_multiple
    ppc,            \* where the parent process is in run()
    i,              \* the loop variable i of _run_multiple (submit, spawn)
    request_queue,  \* the Request Queue: items not yet got, oldest first
    unfinished,     \* the JoinableQueue's count of items not yet task_done
    result_queue,   \* the Response Queue, oldest first
    task_remains,   \* _run_multiple: responses still to receive
    responses,      \* _run_multiple: the successful responses, as received
    joined,         \* how many of procs the parent has joined
    listener,       \* the QueueListener: "none", "running", "stopped"
    closed,         \* the queues the parent has closed
    results,        \* what run() returns
    child_pc,       \* procs: where each started child_worker is
    child_req,      \* each child_worker's local req
    submitted,      \* history: every TaskRequest the parent has put, in order
    drained,        \* history: every response the parent got, in order
    none_gets,      \* history: how many None each child_worker has got
    none_puts,      \* history: how many None each child_worker has put
    parent_nones,   \* history: how many None the parent has put
    dequeued,       \* history: every TaskRequest a child has got, in order
    call            \* the call of a pure function under way (<<>>: none)

vars == <<nchild, num_task, ppc, i, request_queue, unfinished, result_queue,
          task_remains, responses, joined, listener, closed, results,
          child_pc, child_req, submitted, drained, none_gets, none_puts,
          parent_nones, dequeued, call>>

\* ---------------------------------------------------------------- dto
\* None, the entry that tells a child to close (not a TaskRequest).
None == [none |-> TRUE]

\* Mutant of check_value: the lower bound is not checked.
check_value_NoLower(value) ==
    IF value > UpperBound THEN FALSE ELSE TRUE

\* Mutant of check_value: the upper bound is not checked.
check_value_NoUpper(value) ==
    IF value < LowerBound THEN FALSE ELSE TRUE

\* Mutant of check_value: both ends of the range are rejected.
check_value_Exclusive(value) ==
    IF value <= LowerBound THEN FALSE
    ELSE IF value >= UpperBound THEN FALSE
    ELSE TRUE

\* check_value returns the value (TRUE) or raises ValueError (FALSE).
check_value(value) ==
    IF value < LowerBound THEN FALSE
    ELSE IF value > UpperBound THEN FALSE
    ELSE TRUE

\* TaskRequest(...) is constructed (TRUE) or raises (FALSE).
TaskRequestValid(request_index, request_value) ==
    check_value(request_index) /\ check_value(request_value)

TaskRequest(request_index, request_value) ==
    [request_index |-> request_index, request_value |-> request_value]

\* TaskResponse(...) is constructed (TRUE) or raises (FALSE).
TaskResponseValid(request_index, response_value) ==
    check_value(request_index) /\ check_value(response_value)

TaskResponse(request_index, response_value, is_success) ==
    [request_index |-> request_index, response_value |-> response_value,
     is_success |-> is_success]

\* -------------------------------------------------------------- child
\* Mutant of res_value: req_value * 2 instead of req_value ** 2.
res_value_Double(req) == req.request_value * 2

\* Child.run: res_value = req_value ** 2.
res_value(req) == req.request_value * req.request_value

\* Child.run raises ValueError when the TaskResponse cannot be built.
ChildRunRaises(req) == ~TaskResponseValid(req.request_index, res_value(req))

\* Child.run's return value when it does not raise.
ChildRunResult(req) == TaskResponse(req.request_index, res_value(req), TRUE)

\* child_worker: the response of one request (try chi.run / except).
WorkerResponse(req) ==
    IF ChildRunRaises(req)
    THEN TaskResponse(req.request_index, DummyValue, FALSE)
    ELSE ChildRunResult(req)

\* ------------------------------------------------------------- parent
\* Mutant of get_nchild: cpu_count < nchild instead of cpu_count <= nchild.
get_nchild_StrictOvershoot(n, cpu_count) ==
    IF cpu_count = <<>> \/ cpu_count[1] < 2 THEN 1
    ELSE IF 0 <= n /\ n < 2 THEN 1
    ELSE IF n < 0 \/ cpu_count[1] < n THEN cpu_count[1] - 1 ELSE n

\* Mutant of get_nchild: a requested nchild above cpu_count is not capped.
get_nchild_NoCap(n, cpu_count) ==
    IF cpu_count = <<>> \/ cpu_count[1] < 2 THEN 1
    ELSE IF 0 <= n /\ n < 2 THEN 1
    ELSE IF n < 0 THEN cpu_count[1] - 1 ELSE n

\* Optional[int] cpu_count: <<>> is None, <<c>> is the int c.
get_nchild(n, cpu_count) ==
    IF cpu_count = <<>> \/ cpu_count[1] < 2 THEN 1
    ELSE IF 0 <= n /\ n < 2 THEN 1
    ELSE IF n < 0 \/ cpu_count[1] <= n THEN cpu_count[1] - 1 ELSE n

\* The i-th request both paths build: request_index = i + 1, request_value = i.
RequestIndex(k) == k + 1
RequestValue(k) == k

\* _run_single: reqs, the requests of range(num_task) that are constructed.
RECURSIVE single_reqs(_)
single_reqs(n) ==
    IF n = 0 THEN <<>>
    ELSE IF TaskRequestValid(RequestIndex(n - 1), RequestValue(n - 1))
         THEN Append(single_reqs(n - 1),
                     TaskRequest(RequestIndex(n - 1), RequestValue(n - 1)))
         ELSE single_reqs(n - 1)

\* _run_single: the loop over reqs (a raising chi.run is just ignored).
RECURSIVE single_results(_)
single_results(reqs) ==
    IF reqs = <<>> THEN <<>>
    ELSE LET front == SubSeq(reqs, 1, Len(reqs) - 1)
             req == reqs[Len(reqs)]
         IN IF ChildRunRaises(req) THEN single_results(front)
            ELSE Append(single_results(front),
                        ChildRunResult(req).response_value)

run_single(n) == single_results(single_reqs(n))

\* Mutant of Insert: the key is ignored, the element goes to the front.
Insert_Front(x, s) == <<x>> \o s

\* sorted(responses, key=lambda x: x.request_index): a stable sort.
Insert(x, s) ==
    LET k == Cardinality({j \in 1..Len(s) :
                            s[j].request_index <= x.request_index})
    IN SubSeq(s, 1, k) \o <<x>> \o SubSeq(s, k + 1, Len(s))

\* Mutant of sorted: the responses are left in the order they arrived in.
sorted_NoSort(s) == s

RECURSIVE sorted(_)
sorted(s) ==
    IF s = <<>> THEN <<>>
    ELSE Insert(s[Len(s)], sorted(SubSeq(s, 1, Len(s) - 1)))

\* _run_multiple's return expression.
SortedValues(s) == [k \in 1..Len(s) |-> sorted(s)[k].response_value]

\* ---------------------------------------------------------------- init
InitState(n, c) ==
    /\ num_task = n
    /\ nchild = c
    /\ ppc = "start"
    /\ i = 0
    /\ request_queue = <<>>
    /\ unfinished = 0
    /\ result_queue = <<>>
    /\ task_remains = 0
    /\ responses = <<>>
    /\ joined = 0
    /\ listener = "none"
    /\ closed = {}
    /\ results = <<>>
    /\ child_pc = <<>>
    /\ child_req = <<>>
    /\ submitted = <<>>
    /\ drained = <<>>
    /\ none_gets = <<>>
    /\ none_puts = <<>>
    /\ parent_nones = 0
    /\ dequeued = <<>>
    /\ call = <<>>

\* The requested nchild (run.py's -n) and the cpu_count os.cpu_count() gives.
RequestedNchild == -1..MaxCpu
CpuCounts == {<<>>} \cup {<<c>> : c \in 0..MaxCpu}
ResolvedNchild == {get_nchild(n, c) : n \in RequestedNchild, c \in CpuCounts}

\* Small batches, any resolved number of children.
Init == \E n \in 0..MaxNumTask, c \in ResolvedNchild : InitState(n, c)

\* Parent.run() as it is: 12 tasks; nchild 1 and 2 as in tests/test_parent.py.
InitRun == \E c \in {get_nchild(1, <<3>>), get_nchild(2, <<3>>)} :
               InitState(NumTask, c)

\* ------------------------------------------- calls of the pure functions
\* The arguments _get_nchild is called with.
NchildArgs == (0 - MaxCpu)..(MaxCpu + 1)
CpuCountArgs == {<<>>} \cup {<<c>> : c \in 0..(MaxCpu + 1)}

\* The field values TaskRequest and TaskResponse are constructed with:
\* around both ends of the accepted range.
DtoValues == ((LowerBound - 2)..(LowerBound + 1))
                 \cup ((UpperBound - 1)..(UpperBound + 2))

\* The calls: Parent._get_nchild(nchild, cpu_count), TaskRequest(...),
\* TaskResponse(...), each not yet evaluated.
Calls ==
    {[fn |-> "_get_nchild", nchild |-> n, cpu_count |-> c,
      done |-> FALSE, ret |-> 0] : n \in NchildArgs, c \in CpuCountArgs}
    \cup {[fn |-> "TaskRequest", request_index |-> x, request_value |-> y,
           done |-> FALSE, raised |-> FALSE] : x \in DtoValues, y \in DtoValues}
    \cup {[fn |-> "TaskResponse", request_index |-> x, response_value |-> y,
           is_success |-> b, done |-> FALSE, raised |-> FALSE] :
               x \in DtoValues, y \in DtoValues, b \in BOOLEAN}

\* One call is under way; no run() is.
InitPure ==
    /\ call \in Calls
    /\ num_task = 0
    /\ nchild = 1
    /\ ppc = "call"
    /\ i = 0
    /\ request_queue = <<>>
    /\ unfinished = 0
    /\ result_queue = <<>>
    /\ task_remains = 0
    /\ responses = <<>>
    /\ joined = 0
    /\ listener = "none"
    /\ closed = {}
    /\ results = <<>>
    /\ child_pc = <<>>
    /\ child_req = <<>>
    /\ submitted = <<>>
    /\ drained = <<>>
    /\ none_gets = <<>>
    /\ none_puts = <<>>
    /\ parent_nones = 0
    /\ dequeued = <<>>

\* All but the call.
run_vars == <<nchild, num_task, ppc, i, request_queue, unfinished,
              result_queue, task_remains, responses, joined, listener, closed,
              results, child_pc, child_req, submitted, drained, none_gets,
              none_puts, parent_nones, dequeued>>

\* Parent._get_nchild returns.
CallGetNchild ==
    /\ call # <<>>
    /\ call.fn = "_get_nchild"
    /\ ~call.done
    /\ call' = [call EXCEPT !.done = TRUE,
                            !.ret = get_nchild(call.nchild, call.cpu_count)]
    /\ UNCHANGED run_vars

\* TaskRequest(request_index=..., request_value=...) returns or raises.
CallTaskRequest ==
    /\ call # <<>>
    /\ call.fn = "TaskRequest"
    /\ ~call.done
    /\ call' = [call EXCEPT !.done = TRUE,
                   !.raised = ~TaskRequestValid(call.request_index,
                                                call.request_value)]
    /\ UNCHANGED run_vars

\* TaskResponse(request_index=..., response_value=..., is_success=...)
\* returns or raises.
CallTaskResponse ==
    /\ call # <<>>
    /\ call.fn = "TaskResponse"
    /\ ~call.done
    /\ call' = [call EXCEPT !.done = TRUE,
                   !.raised = ~TaskResponseValid(call.request_index,
                                                 call.response_value)]
    /\ UNCHANGED run_vars

NextPure == CallGetNchild \/ CallTaskRequest \/ CallTaskResponse

\* The pure functions, each applied to every argument of the bounded sets.
SpecPure == InitPure /\ [][NextPure]_vars

\* ------------------------------------------------------ parent actions
\* run(): start the clock and pick the path by self.nchild.
ParentStart ==
    /\ ppc = "start"
    /\ ppc' = IF nchild < 2 THEN "single" ELSE "submit"
    /\ UNCHANGED <<call, parent_nones, none_puts, dequeued,
                   nchild, num_task, submitted, i, request_queue, unfinished,
                   result_queue, task_remains, responses, joined, listener,
                   closed, results, child_pc, child_req, drained, none_gets>>

\* _run_single: the parent handles every task itself, in order.
ParentRunSingle ==
    /\ ppc = "single"
    /\ results' = run_single(num_task)
    /\ ppc' = "finish"
    /\ UNCHANGED <<call, parent_nones, none_puts, dequeued,
                   nchild, num_task, submitted, i, request_queue, unfinished,
                   result_queue, task_remains, responses, joined, listener,
                   closed, child_pc, child_req, drained, none_gets>>

\* Mutant of ParentSubmit: the TaskRequest is put without being validated.
ParentSubmit_NoValidation ==
    /\ ppc = "submit"
    /\ i < num_task
    /\ request_queue' = Append(request_queue,
                               TaskRequest(RequestIndex(i), RequestValue(i)))
    /\ unfinished' = unfinished + 1
    /\ task_remains' = task_remains + 1
    /\ submitted' = Append(submitted,
                           TaskRequest(RequestIndex(i), RequestValue(i)))
    /\ i' = i + 1
    /\ UNCHANGED <<call, parent_nones, none_puts, dequeued,
                   nchild, num_task, ppc, result_queue, responses, joined,
                   listener, closed, results, child_pc, child_req, drained,
                   none_gets>>

\* _run_multiple: one iteration of "push all Requests in advance".
ParentSubmit ==
    /\ ppc = "submit"
    /\ i < num_task
    /\ IF TaskRequestValid(RequestIndex(i), RequestValue(i))
       THEN /\ request_queue' = Append(request_queue,
                                   TaskRequest(RequestIndex(i), RequestValue(i)))
            /\ unfinished' = unfinished + 1
            /\ task_remains' = task_remains + 1
            /\ submitted' = Append(submitted,
                               TaskRequest(RequestIndex(i), RequestValue(i)))
       ELSE UNCHANGED <<request_queue, unfinished, task_remains, submitted>>
    /\ i' = i + 1
    /\ UNCHANGED <<call, parent_nones, none_puts, dequeued,
                   nchild, num_task, ppc, result_queue, responses, joined,
                   listener, closed, results, child_pc, child_req, drained,
                   none_gets>>

\* Mutant of ParentStartListener: listener.start() is left out.
ParentStartListener_NotStarted ==
    /\ ppc = "submit"
    /\ i = num_task
    /\ ppc' = "spawn"
    /\ i' = 0
    /\ UNCHANGED <<call, parent_nones, none_puts, dequeued,
                   nchild, num_task, submitted, request_queue, unfinished,
                   result_queue, task_remains, responses, joined, listener,
                   closed, results, child_pc, child_req, drained, none_gets>>

\* _run_multiple: create the Message Queue, listener.start().
ParentStartListener ==
    /\ ppc = "submit"
    /\ i = num_task
    /\ listener' = "running"
    /\ ppc' = "spawn"
    /\ i' = 0
    /\ UNCHANGED <<call, parent_nones, none_puts, dequeued,
                   nchild, num_task, submitted, request_queue, unfinished, result_queue,
                   task_remains, responses, joined, closed, results, child_pc,
                   child_req, drained, none_gets>>

\* Mutant of ParentSpawn: child processes are also started while the
\* parent is still putting requests.
ParentSpawn_DuringSubmit ==
    /\ ppc \in {"submit", "spawn"}
    /\ Len(child_pc) < nchild
    /\ child_pc' = Append(child_pc, "get")
    /\ child_req' = Append(child_req, None)
    /\ none_gets' = Append(none_gets, 0)
    /\ i' = IF ppc = "spawn" THEN i + 1 ELSE i
    /\ none_puts' = Append(none_puts, 0)
    /\ UNCHANGED <<call, parent_nones, dequeued,
                   nchild, num_task, submitted, ppc, request_queue, unfinished,
                   result_queue, task_remains, responses, joined, listener,
                   closed, results, drained>>

\* _run_multiple: procs.append(proc); proc.start().
ParentSpawn ==
    /\ ppc = "spawn"
    /\ i < nchild
    /\ child_pc' = Append(child_pc, "get")
    /\ child_req' = Append(child_req, None)
    /\ none_gets' = Append(none_gets, 0)
    /\ i' = i + 1
    /\ none_puts' = Append(none_puts, 0)
    /\ UNCHANGED <<call, parent_nones, dequeued,
                   nchild, num_task, submitted, ppc, request_queue, unfinished,
                   result_queue, task_remains, responses, joined, listener,
                   closed, results, drained>>

\* _run_multiple: responses = list(); pbar = tqdm(total=task_remains).
ParentBeginDrain ==
    /\ ppc = "spawn"
    /\ i = nchild
    /\ responses' = <<>>
    /\ ppc' = "drain"
    /\ UNCHANGED <<call, parent_nones, none_puts, dequeued,
                   nchild, num_task, submitted, i, request_queue, unfinished,
                   result_queue, task_remains, joined, listener, closed,
                   results, child_pc, child_req, drained, none_gets>>

\* Mutant of ParentDrain: a failed response does not decrement task_remains.
ParentDrain_FailedNotCounted ==
    /\ ppc = "drain"
    /\ task_remains > 0
    /\ result_queue # <<>>
    /\ LET res == Head(result_queue)
       IN /\ responses' = IF res.is_success THEN Append(responses, res)
                          ELSE responses
          /\ drained' = Append(drained, res)
          /\ task_remains' = IF res.is_success THEN task_remains - 1
                             ELSE task_remains
    /\ result_queue' = Tail(result_queue)
    /\ UNCHANGED <<call, parent_nones, none_puts, dequeued,
                   nchild, num_task, submitted, ppc, i, request_queue,
                   unfinished, joined, listener, closed, results, child_pc,
                   child_req, none_gets>>

\* Mutant of ParentDrain: a failed response is kept like a successful one.
ParentDrain_KeepFailed ==
    /\ ppc = "drain"
    /\ task_remains > 0
    /\ result_queue # <<>>
    /\ responses' = Append(responses, Head(result_queue))
    /\ drained' = Append(drained, Head(result_queue))
    /\ result_queue' = Tail(result_queue)
    /\ task_remains' = task_remains - 1
    /\ UNCHANGED <<call, parent_nones, none_puts, dequeued,
                   nchild, num_task, submitted, ppc, i, request_queue,
                   unfinished, joined, listener, closed, results, child_pc,
                   child_req, none_gets>>

\* _run_multiple: one iteration of "while task_remains > 0".
ParentDrain ==
    /\ ppc = "drain"
    /\ task_remains > 0
    /\ result_queue # <<>>
    /\ LET res == Head(result_queue)
       IN /\ responses' = IF res.is_success THEN Append(responses, res)
                          ELSE responses
          /\ drained' = Append(drained, res)
    /\ result_queue' = Tail(result_queue)
    /\ task_remains' = task_remains - 1
    /\ UNCHANGED <<call, parent_nones, none_puts, dequeued,
                   nchild, num_task, submitted, ppc, i, request_queue, unfinished,
                   joined, listener, closed, results, child_pc, child_req,
                   none_gets>>

\* _run_multiple: the drain loop ends; pbar.close().
ParentEndDrain ==
    /\ ppc = "drain"
    /\ ~(task_remains > 0)
    /\ ppc' = "qjoin"
    /\ UNCHANGED <<call, parent_nones, none_puts, dequeued,
                   nchild, num_task, submitted, i, request_queue, unfinished,
                   result_queue, task_remains, responses, joined, listener,
                   closed, results, child_pc, child_req, drained, none_gets>>

\* Mutant of ParentQueueJoin: request_queue.join() does not wait.
ParentQueueJoin_NoWait ==
    /\ ppc = "qjoin"
    /\ ppc' = "shutdown"
    /\ UNCHANGED <<call, parent_nones, none_puts, dequeued,
                   nchild, num_task, submitted, i, request_queue, unfinished,
                   result_queue, task_remains, responses, joined, listener,
                   closed, results, child_pc, child_req, drained, none_gets>>

\* _run_multiple: request_queue.join() returns once every put is task_done.
ParentQueueJoin ==
    /\ ppc = "qjoin"
    /\ unfinished = 0
    /\ ppc' = "shutdown"
    /\ UNCHANGED <<call, parent_nones, none_puts, dequeued,
                   nchild, num_task, submitted, i, request_queue, unfinished,
                   result_queue, task_remains, responses, joined, listener,
                   closed, results, child_pc, child_req, drained, none_gets>>

\* Mutant of ParentShutdown: the parent puts the None entry twice.
ParentShutdown_PutTwice ==
    /\ ppc = "shutdown"
    /\ request_queue' = request_queue \o <<None, None>>
    /\ unfinished' = unfinished + 2
    /\ ppc' = "pjoin"
    /\ parent_nones' = parent_nones + 2
    /\ UNCHANGED <<call, none_puts, dequeued,
                   nchild, num_task, submitted, i, result_queue, task_remains,
                   responses, joined, listener, closed, results, child_pc,
                   child_req, drained, none_gets>>

\* _run_multiple: request_queue.put(None), "tell children to close".
ParentShutdown ==
    /\ ppc = "shutdown"
    /\ request_queue' = Append(request_queue, None)
    /\ unfinished' = unfinished + 1
    /\ ppc' = "pjoin"
    /\ parent_nones' = parent_nones + 1
    /\ UNCHANGED <<call, none_puts, dequeued,
                   nchild, num_task, submitted, i, result_queue, task_remains, responses,
                   joined, listener, closed, results, child_pc, child_req,
                   drained, none_gets>>

\* Mutant of ParentJoin: proc.join() returns although the child runs on.
ParentJoin_NoWait ==
    /\ ppc = "pjoin"
    /\ joined < Len(child_pc)
    /\ joined' = joined + 1
    /\ UNCHANGED <<call, parent_nones, none_puts, dequeued,
                   nchild, num_task, submitted, ppc, i, request_queue,
                   unfinished, result_queue, task_remains, responses,
                   listener, closed, results, child_pc, child_req, drained,
                   none_gets>>

\* _run_multiple: proc.join() of the next proc of procs.
ParentJoin ==
    /\ ppc = "pjoin"
    /\ joined < Len(child_pc)
    /\ child_pc[joined + 1] = "exited"
    /\ joined' = joined + 1
    /\ UNCHANGED <<call, parent_nones, none_puts, dequeued,
                   nchild, num_task, submitted, ppc, i, request_queue, unfinished,
                   result_queue, task_remains, responses, listener, closed,
                   results, child_pc, child_req, drained, none_gets>>

\* _run_multiple: listener.stop() and the three close().
ParentRelease ==
    /\ ppc = "pjoin"
    /\ joined = Len(child_pc)
    /\ listener' = "stopped"
    /\ closed' = {"message_queue", "request_queue", "result_queue"}
    /\ ppc' = "sort"
    /\ UNCHANGED <<call, parent_nones, none_puts, dequeued,
                   nchild, num_task, submitted, i, request_queue, unfinished,
                   result_queue, task_remains, responses, joined, results,
                   child_pc, child_req, drained, none_gets>>

\* _run_multiple: sort responses and return results.
ParentSort ==
    /\ ppc = "sort"
    /\ results' = SortedValues(responses)
    /\ ppc' = "finish"
    /\ UNCHANGED <<call, parent_nones, none_puts, dequeued,
                   nchild, num_task, submitted, i, request_queue, unfinished,
                   result_queue, task_remains, responses, joined, listener,
                   closed, child_pc, child_req, drained, none_gets>>

\* run(): stop the clock, log the processing time, return results.
ParentReturn ==
    /\ ppc = "finish"
    /\ ppc' = "returned"
    /\ UNCHANGED <<call, parent_nones, none_puts, dequeued,
                   nchild, num_task, submitted, i, request_queue, unfinished,
                   result_queue, task_remains, responses, joined, listener,
                   closed, results, child_pc, child_req, drained, none_gets>>

\* ------------------------------------------------- child_worker actions
\* Mutant of ChildGet: the entry is read but left on the Request Queue.
ChildGet_Peek(w) ==
    /\ child_pc[w] = "get"
    /\ request_queue # <<>>
    /\ LET req == Head(request_queue)
       IN /\ child_req' = [child_req EXCEPT ![w] = req]
          /\ child_pc' = [child_pc EXCEPT
                            ![w] = IF req = None THEN "relay" ELSE "run"]
          /\ none_gets' = [none_gets EXCEPT
                            ![w] = IF req = None THEN @ + 1 ELSE @]
    /\ dequeued' = IF Head(request_queue) = None THEN dequeued
                   ELSE Append(dequeued, Head(request_queue))
    /\ UNCHANGED <<call, parent_nones, none_puts,
                   nchild, num_task, submitted, ppc, i, request_queue,
                   unfinished, result_queue, task_remains, responses, joined,
                   listener, closed, results, drained>>

\* req = req_queue.get(block=True): blocks while the queue is empty.
ChildGet(w) ==
    /\ child_pc[w] = "get"
    /\ request_queue # <<>>
    /\ LET req == Head(request_queue)
       IN /\ child_req' = [child_req EXCEPT ![w] = req]
          /\ child_pc' = [child_pc EXCEPT
                            ![w] = IF req = None THEN "relay" ELSE "run"]
          /\ none_gets' = [none_gets EXCEPT
                            ![w] = IF req = None THEN @ + 1 ELSE @]
    /\ request_queue' = Tail(request_queue)
    /\ dequeued' = IF Head(request_queue) = None THEN dequeued
                   ELSE Append(dequeued, Head(request_queue))
    /\ UNCHANGED <<call, parent_nones, none_puts,
                   nchild, num_task, submitted, ppc, i, unfinished, result_queue,
                   task_remains, responses, joined, listener, closed, results,
                   drained>>

\* Mutant of ChildRelay: the child leaves without putting a new None.
ChildRelay_NoRepost(w) ==
    /\ child_pc[w] = "relay"
    /\ child_pc' = [child_pc EXCEPT ![w] = "exited"]
    /\ UNCHANGED <<call, parent_nones, none_puts, dequeued,
                   nchild, num_task, submitted, ppc, i, request_queue,
                   unfinished, result_queue, task_remains, responses, joined,
                   listener, closed, results, child_req, drained, none_gets>>

\* Mutant of ChildRelay: the child puts None but stays in its main loop.
ChildRelay_NoBreak(w) ==
    /\ child_pc[w] = "relay"
    /\ request_queue' = Append(request_queue, None)
    /\ unfinished' = unfinished + 1
    /\ child_pc' = [child_pc EXCEPT ![w] = "get"]
    /\ none_puts' = [none_puts EXCEPT ![w] = @ + 1]
    /\ UNCHANGED <<call, parent_nones, dequeued,
                   nchild, num_task, submitted, ppc, i, result_queue,
                   task_remains, responses, joined, listener, closed, results,
                   child_req, drained, none_gets>>

\* Mutant of ChildRelay: the child puts two None entries before it ends.
ChildRelay_PutTwice(w) ==
    /\ child_pc[w] = "relay"
    /\ request_queue' = request_queue \o <<None, None>>
    /\ unfinished' = unfinished + 2
    /\ child_pc' = [child_pc EXCEPT ![w] = "exited"]
    /\ none_puts' = [none_puts EXCEPT ![w] = @ + 2]
    /\ UNCHANGED <<call, parent_nones, dequeued,
                   nchild, num_task, submitted, ppc, i, result_queue,
                   task_remains, responses, joined, listener, closed, results,
                   child_req, drained, none_gets>>

\* Mutant of ChildRelay: the child calls task_done() for the None it got.
ChildRelay_AckNone(w) ==
    /\ child_pc[w] = "relay"
    /\ request_queue' = Append(request_queue, None)
    /\ unfinished' = unfinished + 1 - 1
    /\ child_pc' = [child_pc EXCEPT ![w] = "exited"]
    /\ none_puts' = [none_puts EXCEPT ![w] = @ + 1]
    /\ UNCHANGED <<call, parent_nones, dequeued,
                   nchild, num_task, submitted, ppc, i, result_queue,
                   task_remains, responses, joined, listener, closed, results,
                   child_req, drained, none_gets>>

\* req is None: req_queue.put(None); break; the process ends.
ChildRelay(w) ==
    /\ child_pc[w] = "relay"
    /\ request_queue' = Append(request_queue, None)
    /\ unfinished' = unfinished + 1
    /\ child_pc' = [child_pc EXCEPT ![w] = "exited"]
    /\ none_puts' = [none_puts EXCEPT ![w] = @ + 1]
    /\ UNCHANGED <<call, parent_nones, dequeued,
                   nchild, num_task, submitted, ppc, i, result_queue, task_remains,
                   responses, joined, listener, closed, results, child_req,
                   drained, none_gets>>

\* chi.run(req=req) (or the error response), then res_queue.put(res).
ChildRun(w) ==
    /\ child_pc[w] = "run"
    /\ result_queue' = Append(result_queue, WorkerResponse(child_req[w]))
    /\ child_pc' = [child_pc EXCEPT ![w] = "ack"]
    /\ UNCHANGED <<call, parent_nones, none_puts, dequeued,
                   nchild, num_task, submitted, ppc, i, request_queue, unfinished,
                   task_remains, responses, joined, listener, closed, results,
                   child_req, drained, none_gets>>

\* Mutant of ChildTaskDone: task_done() is not called.
ChildTaskDone_Forgotten(w) ==
    /\ child_pc[w] = "ack"
    /\ child_pc' = [child_pc EXCEPT ![w] = "get"]
    /\ UNCHANGED <<call, parent_nones, none_puts, dequeued,
                   nchild, num_task, submitted, ppc, i, request_queue,
                   unfinished, result_queue, task_remains, responses, joined,
                   listener, closed, results, child_req, drained, none_gets>>

\* req_queue.task_done(), then back to the top of the main loop.
ChildTaskDone(w) ==
    /\ child_pc[w] = "ack"
    /\ unfinished' = unfinished - 1
    /\ child_pc' = [child_pc EXCEPT ![w] = "get"]
    /\ UNCHANGED <<call, parent_nones, none_puts, dequeued,
                   nchild, num_task, submitted, ppc, i, request_queue, result_queue,
                   task_remains, responses, joined, listener, closed, results,
                   child_req, drained, none_gets>>

\* Mutant of ChildCrash: the request of the crashed child is put back on
\* the Request Queue for another child (a supervisor re-delivers it).
ChildCrash_Redelivered(w) ==
    /\ child_pc[w] = "run"
    /\ child_pc' = [child_pc EXCEPT ![w] = "crashed"]
    /\ request_queue' = <<child_req[w]>> \o request_queue
    /\ UNCHANGED <<call, parent_nones, none_puts, dequeued,
                   nchild, num_task, submitted, ppc, i, unfinished,
                   result_queue, task_remains, responses, joined, listener,
                   closed, results, child_req, drained, none_gets>>

\* The child process dies between req_queue.get() and res_queue.put(res):
\* chi.run raises something "except ValueError" does not catch, or the
\* process is killed. Nothing is put, nothing is acknowledged.
ChildCrash(w) ==
    /\ child_pc[w] = "run"
    /\ child_pc' = [child_pc EXCEPT ![w] = "crashed"]
    /\ UNCHANGED <<call, parent_nones, none_puts, dequeued,
                   nchild, num_task, submitted, ppc, i, request_queue,
                   unfinished, result_queue, task_remains, responses, joined,
                   listener, closed, results, child_req, drained, none_gets>>

\* ---------------------------------------------------------------- spec
Parent ==
    \/ ParentStart
    \/ ParentRunSingle
    \/ ParentSubmit
    \/ ParentStartListener
    \/ ParentSpawn
    \/ ParentBeginDrain
    \/ ParentDrain
    \/ ParentEndDrain
    \/ ParentQueueJoin
    \/ ParentShutdown
    \/ ParentJoin
    \/ ParentRelease
    \/ ParentSort
    \/ ParentReturn

\* Mutant of child_worker: task_done() is called before res_queue.put(res).
child_worker_AckBeforePut(w) ==
    \/ ChildGet(w)
    \/ ChildRelay(w)
    \/ /\ child_pc[w] = "run"
       /\ unfinished' = unfinished - 1
       /\ child_pc' = [child_pc EXCEPT ![w] = "ack"]
       /\ UNCHANGED <<call, parent_nones, none_puts, dequeued,
                      nchild, num_task, submitted, ppc, i, request_queue,
                      result_queue, task_remains, responses, joined, listener,
                      closed, results, child_req, drained, none_gets>>
    \/ /\ child_pc[w] = "ack"
       /\ result_queue' = Append(result_queue, WorkerResponse(child_req[w]))
       /\ child_pc' = [child_pc EXCEPT ![w] = "get"]
       /\ UNCHANGED <<call, parent_nones, none_puts, dequeued,
                      nchild, num_task, submitted, ppc, i, request_queue,
                      unfinished, task_remains, responses, joined, listener,
                      closed, results, child_req, drained, none_gets>>

child_worker(w) ==
    \/ ChildGet(w)
    \/ ChildRelay(w)
    \/ ChildRun(w)
    \/ ChildTaskDone(w)

Next == Parent \/ \E w \in 1..Len(child_pc) : child_worker(w)

Spec == Init /\ [][Next]_vars

\* run() with its own batch of 12 tasks.
SpecRun == InitRun /\ [][Next]_vars

\* The operating system schedules every runnable process again and again.
Fairness ==
    /\ WF_vars(Parent)
    /\ \A w \in 1..(MaxCpu - 1) :
          WF_vars(w \in 1..Len(child_pc) /\ child_worker(w))

FairSpec == Init /\ [][Next]_vars /\ Fairness

\* The same program when a child process may die while it handles a task.
NextCrash == Next \/ \E w \in 1..Len(child_pc) : ChildCrash(w)

\* Processes that have not died keep being scheduled; dying is not forced.
FairSpecCrash == Init /\ [][NextCrash]_vars /\ Fairness

\* ------------------------------------------------------------- helpers
\* The child processes started so far.
Children == 1..Len(child_pc)

\* Every one of the nchild child processes was started and has ended.
AllExited ==
    /\ Len(child_pc) = nchild
    /\ \A w \in Children : child_pc[w] = "exited"

\* The number of None entries in a queue.
NoneCount(q) == Cardinality({k \in 1..Len(q) : q[k] = None})

\* The parent has put its None entry (multi-process path).
ShutdownPosted == ppc \in {"pjoin", "sort"} \/ (nchild >= 2 /\ ppc \in {"finish", "returned"})

\* Every response a child has put so far: those the parent has got, then
\* those still in the Response Queue.
AllResponses == drained \o result_queue

\* The parent is in the multi-process path and has left its drain loop.
AfterDrain ==
    /\ nchild >= 2
    /\ ppc \in {"qjoin", "shutdown", "pjoin", "sort", "finish", "returned"}

\* The parent got two responses in the opposite order of their requests.
OutOfOrder ==
    \E a, b \in 1..Len(drained) :
        a < b /\ drained[a].request_index > drained[b].request_index

\* The parent got a failed response.
SomeFailed == \E a \in 1..Len(drained) : ~drained[a].is_success

\* The children that have got None and not yet put it back.
Holders == {w \in Children : child_pc[w] = "relay"}

\* The children between getting a TaskRequest and task_done().
InFlight == {w \in Children : child_pc[w] \in {"run", "ack"}}

\* The TaskRequests still in the Request Queue, oldest first.
IsRequest(x) == x # None
QueueRequests == SelectSeq(request_queue, IsRequest)

\* The sum of a sequence of numbers.
RECURSIVE SumSeq(_)
SumSeq(q) == IF q = <<>> THEN 0 ELSE Head(q) + SumSeq(Tail(q))

\* Iteration k of the submit loop builds a request check_value accepts.
InRange(x) == x \in 1..100
Accepted(k) == InRange(k + 1) /\ InRange(k)

\* The task_done() calls made so far: the JoinableQueue counts one
\* unfinished item per put and takes one off per task_done().
Acks == Len(submitted) + parent_nones + SumSeq(none_puts) - unfinished

\* request_queue.join() has returned.
JoinReturned ==
    /\ nchild >= 2
    /\ ppc \in {"shutdown", "pjoin", "sort", "finish", "returned"}

\* -------------------------------------------------------------- claims
\* C1: once the parent has put its single None on the Request Queue, every
\* child process eventually leaves its main loop and the parent's join over
\* all of procs completes, whatever the number of tasks and of children
\* (checked under FairSpec: every runnable process keeps being scheduled).
C1_ShutdownLiveness ==
    (ppc = "pjoin") ~> (AllExited /\ joined = nchild)

\* C1 witness: the join has completed with more children than accepted
\* tasks, so some child never received a task.
C1_Witness ==
    /\ ppc = "pjoin"
    /\ AllExited
    /\ joined = nchild
    /\ nchild >= 3
    /\ Len(submitted) >= 1
    /\ Len(submitted) < nchild

\* C2: no child gets the None entry twice, and no child ends without having
\* got it: every ended child has got it exactly once.
C2_NoneExactlyOnce ==
    \A w \in Children :
        /\ none_gets[w] <= 1
        /\ child_pc[w] = "exited" => none_gets[w] = 1

\* C2 witness: three children have all ended, each after one None.
C2_Witness ==
    /\ nchild >= 3
    /\ AllExited
    /\ \A w \in Children : none_gets[w] = 1

\* C3 as stated: once the parent has put one None and all children have
\* ended, no None is left in the Request Queue.
C3_NoResidualNone ==
    (ShutdownPosted /\ AllExited) => NoneCount(request_queue) = 0

\* C3 amended: once the parent has put one None and all children have
\* ended, the Request Queue holds exactly one None and nothing else.
C3_OneResidualNone ==
    (ShutdownPosted /\ AllExited) => request_queue = <<None>>

\* C3 witness: the parent has joined two or more ended children.
C3_Witness ==
    /\ ShutdownPosted
    /\ AllExited
    /\ nchild >= 2
    /\ joined = nchild

\* C4: no request_index is answered twice, every response answers an
\* accepted request, and when the parent has left its drain loop it has got
\* exactly one response (successful or failed) for every accepted request
\* and none is left in the Response Queue.
C4_BatchInvariant ==
    LET all == AllResponses
    IN /\ \A a, b \in 1..Len(all) :
             a # b => all[a].request_index # all[b].request_index
       /\ \A a \in 1..Len(all) :
             \E q \in 1..Len(submitted) :
                 submitted[q].request_index = all[a].request_index
       /\ AfterDrain =>
             /\ result_queue = <<>>
             /\ \A q \in 1..Len(submitted) :
                   Cardinality({k \in 1..Len(drained) :
                       drained[k].request_index = submitted[q].request_index}) = 1

\* C4 witness: the drain loop was left after 11 responses, one of them
\* failed, that did not arrive in request order.
C4_Witness ==
    /\ AfterDrain
    /\ Len(submitted) = 11
    /\ Len(drained) = 11
    /\ SomeFailed
    /\ OutOfOrder

\* C5: run() always returns, and before it has returned some process can
\* always take a step (checked under FairSpec).
C5_RunTerminates ==
    /\ <>(ppc = "returned")
    /\ [](ppc # "returned" => ENABLED Next)

\* C5 witness: run() has returned on the multi-process path after draining
\* responses and joining three children.
C5_Witness ==
    /\ ppc = "returned"
    /\ nchild >= 3
    /\ joined = nchild
    /\ Len(drained) >= 3

\* C6: what the multi-process path returns is the response_value of exactly
\* the successful responses the parent got, by strictly ascending
\* request_index, whatever order they arrived in.
C6_SortedSuccessful ==
    (ppc = "returned" /\ nchild >= 2) =>
        LET ok == {k \in 1..Len(drained) : drained[k].is_success}
            rank(k) == 1 + Cardinality({j \in ok :
                drained[j].request_index < drained[k].request_index})
        IN /\ Len(results) = Cardinality(ok)
           /\ \A j, k \in ok :
                 j # k => drained[j].request_index # drained[k].request_index
           /\ \A k \in ok : results[rank(k)] = drained[k].response_value

\* C6 witness: returned, after responses that arrived out of request order
\* and with a failed one among them.
C6_Witness ==
    /\ ppc = "returned"
    /\ nchild >= 2
    /\ OutOfOrder
    /\ SomeFailed
    /\ Len(results) >= 2

\* C7: the multi-process path returns the very sequence the single-process
\* path returns for the same batch.
C7_SameAsSingle ==
    (ppc = "returned" /\ nchild >= 2) => results = run_single(num_task)

\* C7 witness: the multi-process path has returned a non-empty result after
\* out-of-order arrivals, for a batch with a skipped and a failed task.
C7_Witness ==
    /\ ppc = "returned"
    /\ nchild >= 2
    /\ OutOfOrder
    /\ results # <<>>
    /\ Len(submitted) < num_task
    /\ Len(results) < Len(submitted)

\* C8: a successful response to an accepted request with request_value v
\* in [1,100] has response_value v^2.
C8_SquareOfValue ==
    LET all == AllResponses
    IN \A a \in 1..Len(all) :
           \A q \in 1..Len(submitted) :
               ( /\ all[a].is_success
                 /\ submitted[q].request_index = all[a].request_index
                 /\ submitted[q].request_value \in 1..100 )
               => all[a].response_value = submitted[q].request_value ^ 2

\* C8 witness: the successful response to the request of value 10 was put.
C8_Witness ==
    \E a \in 1..Len(AllResponses) :
        \E q \in 1..Len(submitted) :
            /\ AllResponses[a].is_success
            /\ submitted[q].request_index = AllResponses[a].request_index
            /\ submitted[q].request_value = 10
            /\ AllResponses[a].response_value = 100

\* C9: in the list run() returns, with nchild = 1 and with nchild = 2, the
\* element at 0-based position i is (i+1)^2.
C9_PrefixOfSquares ==
    ppc = "returned" => \A p \in 1..Len(results) : results[p] = p ^ 2

\* C9 witness: run() has returned several values on the two-children path
\* after out-of-order arrivals.
C9_Witness ==
    /\ ppc = "returned"
    /\ nchild = 2
    /\ Len(results) >= 9
    /\ OutOfOrder

\* C10 as stated: for the batch of 12 tasks run() returns the squares up to
\* 144, or at least the squares of every value but the skipped 0.
C10_SquaresTo144 ==
    ppc = "returned" =>
        \/ results = [p \in 1..12 |-> p ^ 2]
        \/ results = [p \in 1..11 |-> p ^ 2]

\* C10 amended: for the batch of 12 tasks run() returns the squares 1..100
\* of the values 1..10; the task of value 0 is skipped at submission, and the
\* task of value 11 is answered by a failed response (121 is out of range).
C10_SquaresTo100 ==
    /\ ppc = "returned" => results = [p \in 1..10 |-> p ^ 2]
    /\ AfterDrain =>
          /\ {submitted[q].request_value : q \in 1..Len(submitted)} = 1..11
          /\ {drained[a].request_index : a \in {b \in 1..Len(drained) :
                  ~drained[b].is_success}} = {12}

\* C10 witness: run() has returned ten values on the two-children path.
C10_Witness ==
    /\ ppc = "returned"
    /\ nchild = 2
    /\ Len(results) = 10
    /\ Len(drained) = 11

\* The rows tests/test_parent.py asserts: <<nchild, cpu_count, expected>>.
TestNchildRows ==
    {<<0, <<>>, 1>>, <<0, <<0>>, 1>>, <<0, <<1>>, 1>>, <<0, <<2>>, 1>>,
     <<0, <<3>>, 1>>,
     <<1, <<>>, 1>>, <<1, <<0>>, 1>>, <<1, <<1>>, 1>>, <<1, <<2>>, 1>>,
     <<1, <<3>>, 1>>,
     <<2, <<>>, 1>>, <<2, <<0>>, 1>>, <<2, <<1>>, 1>>, <<2, <<2>>, 1>>,
     <<2, <<3>>, 2>>, <<2, <<4>>, 2>>,
     <<-1, <<>>, 1>>, <<-1, <<0>>, 1>>, <<-1, <<1>>, 1>>, <<-1, <<2>>, 1>>,
     <<-1, <<3>>, 2>>, <<-1, <<4>>, 3>>}

\* A call of _get_nchild has returned.
NchildReturned == call # <<>> /\ call.fn = "_get_nchild" /\ call.done

\* C11: _get_nchild returns 1 when cpu_count is None or < 2; 1 when nchild
\* is 0 or 1; otherwise cpu_count - 1 when nchild is negative or
\* nchild >= cpu_count, and nchild itself when 2 <= nchild < cpu_count; it
\* returns what every row of the test table asserts.
C11_NchildPolicy ==
    NchildReturned =>
        LET n == call.nchild
            c == call.cpu_count
        IN /\ (c = <<>>) => call.ret = 1
           /\ (c # <<>> /\ c[1] < 2) => call.ret = 1
           /\ (c # <<>> /\ c[1] >= 2 /\ n \in {0, 1}) => call.ret = 1
           /\ (c # <<>> /\ c[1] >= 2 /\ (n < 0 \/ (n >= 2 /\ n >= c[1])))
                 => call.ret = c[1] - 1
           /\ (c # <<>> /\ c[1] >= 2 /\ 2 <= n /\ n < c[1]) => call.ret = n
           /\ \A row \in TestNchildRows :
                 (n = row[1] /\ c = row[2]) => call.ret = row[3]

\* C11 witness: _get_nchild(2, 2) has returned 1 (exact equality).
C11_Witness ==
    /\ NchildReturned
    /\ call.nchild = 2
    /\ call.cpu_count = <<2>>
    /\ call.ret = 1

C13_Deterministic ==
    ppc = "returned" =>
        LET good == {v \in 0..(num_task - 1) : Accepted(v) /\ InRange(v * v)}
        IN /\ Len(results) = Cardinality(good)
           /\ \A v \in good :
                 results[1 + Cardinality({u \in good : u < v})] = v * v

\* C13 witness: run() has returned on the two-children path although the
\* first response that arrived was not that of the first request.
C13_Witness ==
    /\ ppc = "returned"
    /\ nchild = 2
    /\ Len(drained) >= 2
    /\ drained[1].request_index # submitted[1].request_index
    /\ results[1] = 1

\* C14: a request whose square is out of range gets exactly one response,
\* with is_success = FALSE and the dummy value; that response decrements
\* task_remains like any other, so the drain ends at 0; it is not kept in
\* responses, and the result has one value per successful response.
C14_FailedResponse ==
    /\ \A q \in 1..Len(submitted) :
          ~InRange(submitted[q].request_value ^ 2) =>
              LET answers == {a \in 1..Len(AllResponses) :
                      AllResponses[a].request_index = submitted[q].request_index}
              IN /\ Cardinality(answers) <= 1
                 /\ \A a \in answers :
                       /\ ~AllResponses[a].is_success
                       /\ AllResponses[a].response_value = 1
                 /\ AfterDrain =>
                       (Cardinality(answers) = 1 /\ answers \subseteq 1..Len(drained))
                 /\ \A k \in 1..Len(responses) :
                       responses[k].request_index # submitted[q].request_index
    /\ task_remains + Len(drained) = Len(submitted)
    /\ AfterDrain => task_remains = 0
    /\ (ppc = "returned" /\ nchild >= 2) =>
          Len(results) = Cardinality({a \in 1..Len(drained) : drained[a].is_success})

\* C14 witness: the drain loop has ended although a failed response arrived
\* before a successful one.
C14_Witness ==
    /\ AfterDrain
    /\ task_remains = 0
    /\ \E a, b \in 1..Len(drained) :
          a < b /\ ~drained[a].is_success /\ drained[b].is_success

\* C15: a request that fails validation at submission is nowhere: not in the
\* Request Queue, not counted in task_remains, never got by a child, never
\* answered; and the requests after it are submitted all the same.
C15_RejectedNeverSubmitted ==
    LET requests == {request_queue[k] : k \in {j \in 1..Len(request_queue) :
                                                  request_queue[j] # None}}
                    \cup {submitted[k] : k \in 1..Len(submitted)}
                    \cup {dequeued[k] : k \in 1..Len(dequeued)}
                    \cup {child_req[w] : w \in InFlight}
        valid == {k + 1 : k \in {j \in 0..(num_task - 1) : Accepted(j)}}
    IN /\ \A r \in requests :
             InRange(r.request_index) /\ InRange(r.request_value)
       /\ \A a \in 1..Len(AllResponses) :
             AllResponses[a].request_index \in valid
       /\ (nchild >= 2 /\ ppc = "submit") =>
             /\ task_remains = Cardinality({k \in 0..(i - 1) : Accepted(k)})
             /\ Len(submitted) = task_remains
       /\ (nchild >= 2 /\ ppc \notin {"start", "submit"}) =>
             {submitted[k].request_index : k \in 1..Len(submitted)} = valid
       /\ (nchild < 2 /\ ppc = "returned") =>
             \A k \in 0..(num_task - 1) :
                 (Accepted(k) /\ InRange(k * k)) =>
                     \E p \in 1..Len(results) : results[p] = k * k

\* C15 witness: the first request of a batch of three or more was rejected,
\* the others were submitted and have all been answered.
C15_Witness ==
    /\ AfterDrain
    /\ num_task >= 3
    /\ Len(submitted) = num_task - 1
    /\ submitted[1].request_index = 2
    /\ Len(drained) = num_task - 1

\* C16: constructing a TaskRequest or a TaskResponse raises exactly when
\* one of its integer fields is outside [1,100]; 0 and 101 are rejected,
\* 1 and 100 are accepted.
C16_ValidationRange ==
    (call # <<>> /\ call.done /\ call.fn \in {"TaskRequest", "TaskResponse"}) =>
        LET x == call.request_index
            y == IF call.fn = "TaskRequest" THEN call.request_value
                 ELSE call.response_value
        IN /\ call.raised <=> (x < 1 \/ x > 100 \/ y < 1 \/ y > 100)
           /\ (x \in {0, 101} \/ y \in {0, 101}) => call.raised
           /\ (x \in {1, 100} /\ y \in {1, 100}) => ~call.raised

\* C16 witness: TaskResponse(request_index=1, response_value=101) raised
\* and TaskRequest would not have with 100.
C16_Witness ==
    /\ call # <<>>
    /\ call.done
    /\ call.fn = "TaskResponse"
    /\ call.request_index = 1
    /\ call.response_value = 101
    /\ call.raised

\* C17: when the parent is about to put None it has got every response,
\* every TaskRequest put has been got and acknowledged, the Request Queue is
\* empty and every child waits in get(); the parent puts None exactly once.
C17_ShutdownOrdering ==
    /\ ppc = "shutdown" =>
          /\ task_remains = 0
          /\ Len(drained) = Len(submitted)
          /\ Len(dequeued) = Len(submitted)
          /\ unfinished = 0
          /\ request_queue = <<>>
          /\ Len(child_pc) = nchild
          /\ \A w \in Children : child_pc[w] = "get"
    /\ parent_nones = IF ShutdownPosted THEN 1 ELSE 0

\* C17 witness: the parent has just put None after three or more responses,
\* and no child has got it yet.
C17_Witness ==
    /\ ppc = "pjoin"
    /\ parent_nones = 1
    /\ request_queue = <<None>>
    /\ Len(drained) >= 3
    /\ \A w \in Children : child_pc[w] = "get"

\* C18: from the parent's put on, the None entries in the Request Queue plus
\* the children that have got None and not yet put it back number exactly
\* one (none before); the queue never holds two None; a child that has ended
\* has put exactly one None, and no child puts more None than it got.
C18_SingleToken ==
    /\ NoneCount(request_queue) <= 1
    /\ NoneCount(request_queue) + Cardinality(Holders)
          = IF ShutdownPosted THEN 1 ELSE 0
    /\ \A w \in Children :
          /\ child_pc[w] = "exited" => none_puts[w] = 1
          /\ none_puts[w] <= none_gets[w]

\* C18 witness: one child has ended, another holds the None it got and has
\* not yet put it back, so the queue holds none.
C18_Witness ==
    /\ \E w \in Children : child_pc[w] = "exited"
    /\ Cardinality(Holders) = 1
    /\ NoneCount(request_queue) = 0

\* C19: when all child processes have been joined, the parent and the W
\* children have put W + 1 None entries together, the children have got W
\* of them, and exactly one is left in the Request Queue.
C19_NonePutsAndGets ==
    (nchild >= 2 /\ joined = nchild) =>
        /\ parent_nones + SumSeq(none_puts) = nchild + 1
        /\ SumSeq(none_gets) = nchild
        /\ NoneCount(request_queue) = 1

\* C19 witness: three children have been joined.
C19_Witness ==
    /\ nchild = 3
    /\ joined = 3
    /\ SumSeq(none_puts) = 3
    /\ parent_nones = 1

\* C20: every TaskRequest put is either still in the Request Queue or was
\* got exactly once (never put back); a got request is held by exactly one
\* child until it is answered, once; a child holds one request at a time.
C20_DequeuedOnce ==
    /\ dequeued \o QueueRequests = submitted
    /\ \A a, b \in 1..Len(dequeued) :
          a # b => dequeued[a].request_index # dequeued[b].request_index
    /\ Len(dequeued) = Len(AllResponses)
                       + Cardinality({w \in Children : child_pc[w] = "run"})
    /\ \A w \in InFlight :
          /\ child_req[w] # None
          /\ \E a \in 1..Len(dequeued) : dequeued[a] = child_req[w]
          /\ \A v \in InFlight : v # w => child_req[v] # child_req[w]
          /\ Cardinality({a \in 1..Len(AllResponses) :
                AllResponses[a].request_index = child_req[w].request_index})
             = IF child_pc[w] = "run" THEN 0 ELSE 1

\* C20 witness: two children hold a request each while a third request
\* has already been answered.
C20_Witness ==
    /\ Cardinality({w \in Children : child_pc[w] = "run"}) >= 2
    /\ Len(dequeued) >= 3
    /\ Len(AllResponses) >= 1

\* C21: a child calls task_done() once for each TaskRequest it got, after it
\* has put that request's response, whether the response is successful or
\* failed: the acknowledgements are the requests got minus those still held,
\* never more than the requests got nor than the responses put; a child
\* about to acknowledge has put its response; and when request_queue.join()
\* has returned every request put has its response put, the failed one too.
C21_AckAfterResponse ==
    LET all == AllResponses
    IN /\ Acks = Len(dequeued) - Cardinality(InFlight)
       /\ Acks <= Len(dequeued)
       /\ Acks <= Len(all)
       /\ \A w \in Children :
             child_pc[w] = "ack" =>
                 \E a \in 1..Len(all) : all[a] = WorkerResponse(child_req[w])
       /\ JoinReturned =>
             /\ Acks = Len(submitted)
             /\ \A q \in 1..Len(submitted) :
                   \E a \in 1..Len(all) : all[a] = WorkerResponse(submitted[q])

\* C21 witness: request_queue.join() has just returned for the batch of 12:
\* eleven requests acknowledged, one of them answered by a failed response.
C21_Witness ==
    /\ ppc = "shutdown"
    /\ nchild = 2
    /\ Acks = 11
    /\ Len(dequeued) = 11
    /\ SomeFailed

\* A child process that has been started and has not ended.
Running == {w \in Children : child_pc[w] \notin {"exited", "crashed"}}

\* C22: the QueueListener is started before any child process is started
\* and stopped only after every child has ended and been joined: while some
\* child is running (getting, handling a task and logging, acknowledging,
\* handing None over) the listener is running and the Message Queue is open.
C22_ListenerLifetime ==
    /\ Len(child_pc) > 0 => listener # "none"
    /\ listener = "stopped" => (AllExited /\ joined = nchild)
    /\ Running # {} =>
          (listener = "running" /\ "message_queue" \notin closed)
    /\ ppc = "spawn" => listener = "running"

\* C22 witness: the listener has been stopped after three children handled
\* tasks and ended.
C22_Witness ==
    /\ listener = "stopped"
    /\ nchild = 3
    /\ AllExited
    /\ Len(drained) >= 2

\* The three queues of _run_multiple.
Queues == {"message_queue", "request_queue", "result_queue"}

\* C23: the queues are closed by the parent alone, in its release step, all
\* three, and only once every child has ended and been joined; no child
\* takes a step (get, put, task_done) once a queue is closed; and the
\* Response Queue is empty when it is closed.
C23_ClosedByParentAtEnd ==
    /\ [](closed # {} =>
            /\ closed = Queues
            /\ AllExited
            /\ joined = nchild
            /\ result_queue = <<>>)
    /\ [][closed' # closed =>
            /\ ppc = "pjoin"
            /\ ppc' = "sort"
            /\ child_pc' = child_pc
            /\ child_req' = child_req]_vars
    /\ [][(\E w \in Children : child_pc'[w] # child_pc[w]) =>
            (closed = {} /\ closed' = {})]_vars

\* C23 witness: the queues are closed after three children have ended, the
\* Response Queue read to the end and one None left in the Request Queue.
C23_Witness ==
    /\ closed = Queues
    /\ nchild = 3
    /\ AllExited
    /\ Len(drained) >= 2
    /\ result_queue = <<>>
    /\ request_queue = <<None>>

\* The child processes that died while handling a task.
Crashed == {w \in Children : child_pc[w] = "crashed"}

\* Nobody can take a step: the parent waits in result_queue.get() of its
\* drain loop, every child alive waits in req_queue.get().
Hung ==
    /\ ppc = "drain"
    /\ task_remains > 0
    /\ result_queue = <<>>
    /\ \A w \in Children :
          \/ child_pc[w] = "crashed"
          \/ child_pc[w] = "get" /\ request_queue = <<>>
    /\ ~ENABLED NextCrash

\* C24: when a child has died between getting a TaskRequest and putting its
\* response, that request is never put back, held by another child or
\* answered; task_remains stays above 0, the parent never leaves its drain
\* loop (no join, no None put, no return); and the batch ends up hung, the
\* parent in result_queue.get() (checked under FairSpecCrash).
C24_CrashHangsDrain ==
    /\ [](\A w \in Crashed :
            /\ child_req[w] # None
            /\ \A k \in 1..Len(request_queue) : request_queue[k] # child_req[w]
            /\ \A v \in InFlight : child_req[v] # child_req[w]
            /\ \A a \in 1..Len(AllResponses) :
                  AllResponses[a].request_index # child_req[w].request_index
            /\ task_remains > 0
            /\ Len(drained) < Len(submitted)
            /\ ppc \in {"spawn", "drain"}
            /\ parent_nones = 0
            /\ NoneCount(request_queue) = 0
            /\ results = <<>>)
    /\ [][\A w \in Crashed : w \in Children /\ child_pc'[w] = "crashed"]_vars
    /\ (Crashed # {}) ~> [](Hung /\ task_remains >= Cardinality(Crashed))

\* C24 witness: one of three children has died; the other requests have
\* been answered and got by the parent, which waits for the lost one.
C24_Witness ==
    /\ Cardinality(Crashed) = 1
    /\ nchild = 3
    /\ Hung
    /\ task_remains = 1
    /\ Len(drained) >= 2

\* C25: when the first child process is about to be started every accepted
\* TaskRequest is in the Request Queue, by ascending request_index, and
\* task_remains is their number; once a child has been started the parent
\* puts no TaskRequest any more (the requests put are complete and fixed).
C25_PrePopulated ==
    /\ []((nchild >= 2 /\ ppc = "spawn") =>
            /\ submitted = single_reqs(num_task)
            /\ task_remains = Len(submitted)
            /\ \A a, b \in 1..Len(submitted) :
                  a < b => submitted[a].request_index < submitted[b].request_index
            /\ Len(child_pc) = 0 => request_queue = submitted)
    /\ [](Len(child_pc) > 0 =>
            /\ ppc \notin {"start", "submit"}
            /\ submitted = single_reqs(num_task))
    /\ [][Len(child_pc) > 0 =>
            /\ submitted' = submitted
            /\ \/ Len(request_queue') <= Len(request_queue)
               \/ request_queue' = Append(request_queue, None)]_vars

\* C25 witness: the first child has just been started and has not yet got
\* anything; the three accepted requests of a batch of four are queued.
C25_Witness ==
    /\ ppc = "spawn"
    /\ Len(child_pc) = 1
    /\ child_pc[1] = "get"
    /\ num_task = 4
    /\ Len(submitted) = 3
    /\ request_queue = submitted
    /\ task_remains = 3

\* C26: the steps by which a child handles None (getting it, putting a new
\* one and ending) change the Request Queue and that child's own state only:
\* no response is put, task_done() is not called, the parent and the other
\* children are untouched. So the None entries put are never acknowledged:
\* from the parent's put on, the unfinished count is the number of None put
\* (never 0 again, so a further request_queue.join() could not return), and
\* it is nchild + 1 once all the children have ended.
C26_NoneNeverAcknowledged ==
    /\ [][\A w \in Children :
            (\/ child_pc[w] = "get" /\ child_pc'[w] = "relay"
             \/ child_pc[w] = "relay" /\ child_pc'[w] = "exited") =>
                /\ Acks' = Acks
                /\ unfinished' >= unfinished
                /\ UNCHANGED <<result_queue, drained, responses, task_remains,
                               results, ppc, i, joined, listener, closed,
                               submitted, dequeued, parent_nones, nchild,
                               num_task, call>>
                /\ Len(child_pc') = Len(child_pc)
                /\ \A v \in Children \ {w} :
                      /\ child_pc'[v] = child_pc[v]
                      /\ child_req'[v] = child_req[v]
                      /\ none_gets'[v] = none_gets[v]
                      /\ none_puts'[v] = none_puts[v]]_vars
    /\ [](ShutdownPosted =>
            /\ unfinished = parent_nones + SumSeq(none_puts)
            /\ unfinished >= 1
            /\ Acks = Len(submitted))
    /\ []((ShutdownPosted /\ AllExited) => unfinished = nchild + 1)

\* C26 witness: three children have handled None and ended; four None
\* entries were put and none acknowledged.
C26_Witness ==
    /\ nchild = 3
    /\ AllExited
    /\ joined = 3
    /\ unfinished = 4
    /\ Len(submitted) >= 2
    /\ Acks = Len(submitted)

====
